---- MODULE Spec2Model ----
(***************************************************************************)
(* Linkwatch: the periodic check pipeline (scheduler, worker pool, host    *)
(* limiter, probe with retry/backoff) and the SQLite write path of         *)
(* CreateTarget behind POST /v1/targets.                                   *)
(*                                                                         *)
(* Strings are sequences of one-character strings where the code looks     *)
(* inside them (hosts, paths); a nil pointer is the empty sequence <<>>    *)
(* and a pointer to v is <<v>>.                                            *)
(***************************************************************************)
EXTENDS Integers, Sequences, FiniteSets, TLC

VARIABLES
    jobs,        \* WorkerPool.jobs: buffered channel of models.Target
    closed,      \* TRUE once close(p.jobs) ran
    workers,     \* one record per worker goroutine of startWorkers
    hosts,       \* HostLimiter.hosts
    clock,       \* the last value time.Now() returned
    targets,     \* table targets (committed rows)
    idem,        \* table idempotency_keys (committed rows)
    results,     \* table check_results, in insertion order
    chk,         \* the ticker goroutine of Checker.Start
    stopChan,    \* TRUE once close(c.stopChan) ran
    tickPending, \* a tick is buffered in ticker.C
    passes,      \* number of scheduleChecks calls so far
    stopOnce,    \* WorkerPool.stopOnce: "free", "running" (inside f) or "done"
    poolStop,    \* position of each caller of WorkerPool.Stop
    panicked,    \* TRUE once a goroutine panicked (close of a closed channel)
    mainpc,      \* position of run() around checkerSvc.Stop()
    graceExpired, \* TRUE once the deadline of shutdownCtx has passed
    server,      \* the outcomes the probed servers can produce
    reqs,        \* one record per API request-handling goroutine
    responses,   \* the 200/201 responses of POST /v1/targets, in order
    nextId,      \* number of ids generateID has handed out
    dbWriter,    \* the transaction holding SQLite's write lock, or 0
    dbReaders,   \* the transactions holding a read lock
    lst,         \* a client of the two list endpoints and its last response
    canon,       \* a caller of urlutil.Canonicalize and what it got back
    lim          \* the last call on a HostLimiter and what it returned

poolVars == <<jobs, closed, workers, hosts, clock, results, server>>
chkVars == <<chk, stopChan, tickPending, passes, stopOnce, poolStop, panicked,
            mainpc, graceExpired>>
storeVars == <<targets, idem, reqs, responses, nextId, dbWriter, dbReaders,
              lst, canon, lim>>
pipelineVars == <<jobs, closed, workers, hosts, results, server, chkVars>>
vars == <<jobs, closed, workers, hosts, clock, targets, idem, results,
          chk, stopChan, tickPending, passes, stopOnce, poolStop, panicked,
          mainpc, graceExpired, server,
          reqs, responses, nextId, dbWriter, dbReaders, lst, canon, lim>>

----------------------------------------------------------------------------
(* Bounds of the model *)

MaxConcurrency == 2
MaxClock == 6
MaxPasses == 2
MaxHandlers == 2
MaxIds == 3
MaxStoppers == 2
MaxSubmits == 5

----------------------------------------------------------------------------
(* Program constants *)

maxAttempts == 3
InitialBackoff == 200

\* Status codes a probed server answers with: both ends of 500..599 and
\* their neighbours.
Codes == {200, 499, 500, 599, 600}

\* What p.httpClient.Do can return: a transport error or a response.
TransportError == [kind |-> "err", code |-> 0]
Response(c) == [kind |-> "resp", code |-> c]
Outcomes == {TransportError} \cup {Response(c) : c \in Codes}

\* startWorkers launching one goroutine more than asked for.
Workers_Extra == 1..(MaxConcurrency + 1)

\* startWorkers(count): the goroutines ranging over p.jobs.
Workers == 1..MaxConcurrency
QueueCap == MaxConcurrency * 2

\* The callers of WorkerPool.Stop: 0 is the ticker goroutine of the
\* Checker, the others call Stop on a pool they own.
Callers == 0..MaxStoppers
Stoppers == 1..MaxStoppers

\* The goroutines net/http runs handlers on.
Slots == 1..MaxHandlers

----------------------------------------------------------------------------
(* URLs *)

\* url.Parse fails on a path with an invalid percent escape; the model's
\* alphabet has no hex digit, so every "%" is one.
ParseOK(u) == \A i \in 1..Len(u.path) : u.path[i] # "%"

\* url.URL.Hostname: the host without a ":port" suffix.
RECURSIVE Hostname(_)
Hostname(h) ==
    IF h = <<>> THEN <<>>
    ELSE IF \E i \in 1..Len(h) : h[i] = ":"
         THEN Hostname(SubSeq(h, 1, Len(h) - 1))
         ELSE h

\* http.NewRequestWithContext(ctx, GET, url, nil) fails iff url.Parse fails.
NewRequestOK(canonical) == ParseOK(canonical)

HTTP == <<"h", "t", "t", "p">>
HTTPS == <<"h", "t", "t", "p", "s">>
FTP == <<"f", "t", "p">>

\* strings.ToLower, on the letters the model's URLs use.
LowerChar(c) ==
    CASE c = "A" -> "a"
      [] c = "B" -> "b"
      [] c = "H" -> "h"
      [] c = "T" -> "t"
      [] c = "P" -> "p"
      [] c = "S" -> "s"
      [] OTHER -> c

ToLower(str) == [i \in 1..Len(str) |-> LowerChar(str[i])]

\* strings.HasSuffix
HasSuffix(str, suffix) ==
    /\ Len(str) >= Len(suffix)
    /\ SubSeq(str, Len(str) - Len(suffix) + 1, Len(str)) = suffix

\* strings.TrimSuffix
TrimSuffix(str, suffix) ==
    IF HasSuffix(str, suffix) THEN SubSeq(str, 1, Len(str) - Len(suffix)) ELSE str

\* urlutil.Canonicalize on a URL given by its parts as typed. url.Parse
\* lowercases the scheme; u.String() of the result is the record
\* [scheme, host, path] (the fragment is gone).
Canonicalize(raw) ==
    LET scheme == ToLower(raw.scheme) IN
    IF ~ParseOK(raw) THEN [ok |-> FALSE]
    ELSE IF scheme = <<>> \/ (scheme # HTTP /\ scheme # HTTPS) THEN [ok |-> FALSE]
    ELSE LET lower == ToLower(raw.host)
             host == IF \/ scheme = HTTP /\ HasSuffix(lower, <<":", "8", "0">>)
                        \/ scheme = HTTPS /\ HasSuffix(lower, <<":", "4", "4", "3">>)
                     THEN Hostname(lower) ELSE lower
             path == IF Len(raw.path) > 1 /\ HasSuffix(raw.path, <<"/">>)
                     THEN TrimSuffix(raw.path, <<"/">>) ELSE raw.path
         IN [ok |-> TRUE, url |-> [scheme |-> scheme, host |-> host, path |-> path]]

RawURL(scheme, host, path, frag) ==
    [scheme |-> scheme, host |-> host, path |-> path, frag |-> frag]

\* strings.Index: the position of the first c in str, 0 if there is none.
Index(str, c) ==
    IF \E i \in 1..Len(str) : str[i] = c
    THEN CHOOSE i \in 1..Len(str) : str[i] = c /\ \A j \in 1..(i - 1) : str[j] # c
    ELSE 0

\* url.URL.String of a URL with a scheme and a host and no query or
\* fragment: scheme "://" host path.
UrlString(u) == u.scheme \o <<":", "/", "/">> \o u.host \o u.path

\* url.Parse of scheme "://" authority path "#" fragment: the fragment is
\* cut at the first "#", the scheme at the first ":", and the authority
\* runs to the first "/" after the "//".
UrlParse(str) ==
    LET hash == Index(str, "#")
        frag == IF hash = 0 THEN <<>> ELSE SubSeq(str, hash + 1, Len(str))
        rest == IF hash = 0 THEN str ELSE SubSeq(str, 1, hash - 1)
        colon == Index(rest, ":")
        scheme == SubSeq(rest, 1, colon - 1)
        after == SubSeq(rest, colon + 3, Len(rest))
        slash == Index(after, "/")
        host == IF slash = 0 THEN after ELSE SubSeq(after, 1, slash - 1)
        path == IF slash = 0 THEN <<>> ELSE SubSeq(after, slash, Len(after))
    IN RawURL(scheme, host, path, frag)

\* The strings handed to Canonicalize: every scheme, host and path below,
\* with and without a fragment, e.g. http://a/p//, HTTPS://A:443/#f, ftp://a.
CanonSchemes == {HTTP, <<"H", "T", "T", "P">>, HTTPS, FTP}
CanonHosts == {<<"a">>, <<"A">>, <<"a", ":", "8", "0">>, <<"a", ":", "4", "4", "3">>}
CanonPaths == {<<>>, <<"/">>, <<"/", "/">>, <<"/", "p">>, <<"/", "p", "/">>,
               <<"/", "p", "/", "/">>}
CanonInputs ==
    { UrlString(RawURL(sc, h, pa, <<>>)) \o fr :
        sc \in CanonSchemes, h \in CanonHosts, pa \in CanonPaths,
        fr \in {<<>>, <<"#", "f">>} }

\* Canonicalize as its callers see it: from string to (string, error).
CanonicalizeString(str) ==
    LET res == Canonicalize(UrlParse(str))
    IN IF res.ok THEN [ok |-> TRUE, str |-> UrlString(res.url)] ELSE [ok |-> FALSE]

\* The URLs clients post: http://a/p, HTTP://A:80/p/#f (same canonical
\* form), https://b and ftp://a (rejected).
RawURLs ==
    { RawURL(HTTP, <<"a">>, <<"/", "p">>, <<>>),
      RawURL(<<"H", "T", "T", "P">>, <<"A", ":", "8", "0">>, <<"/", "p", "/">>, <<"f">>),
      RawURL(HTTPS, <<"b">>, <<>>, <<>>),
      RawURL(FTP, <<"a">>, <<>>, <<>>) }

\* The Idempotency-Key header values clients send.
Keys == {"k1", "k2"}

\* keyPtr of Handlers.CreateTarget: nil for an absent (empty) header.
KeyPtrs == {<<>>} \cup {<<k>> : k \in Keys}

----------------------------------------------------------------------------
(* Timestamps *)

(* A time.Time is the number of tenths of a second since the epoch of the  *)
(* model: the whole seconds are one digit, the tenth is the sub-second     *)
(* part. The store keeps timestamps as TEXT in the RFC3339Nano layout,     *)
(* which drops a zero fraction; of such a string the model keeps the       *)
(* seconds digit, the fraction if any, and the "Z" (the date and the rest  *)
(* of the time are the same in all of them).                               *)

Digits == <<"0", "1", "2", "3", "4", "5", "6", "7", "8", "9">>

\* The byte value of a character, as SQLite's BINARY collation and Go's
\* string comparison see it.
CharCode(c) ==
    CASE c = "." -> 46
      [] c = "Z" -> 90
      [] OTHER -> 48 + (CHOOSE d \in 0..9 : Digits[d + 1] = c)

\* t.Format(time.RFC3339Nano) of a UTC time.
FormatTime(t) ==
    IF t % 10 = 0
    THEN <<Digits[(t \div 10) + 1], "Z">>
    ELSE <<Digits[(t \div 10) + 1], ".", Digits[(t % 10) + 1], "Z">>

\* time.Parse(time.RFC3339Nano, str) of a string Format produced.
ParseTime(str) ==
    IF Len(str) = 2
    THEN 10 * (CharCode(str[1]) - 48)
    ELSE 10 * (CharCode(str[1]) - 48) + (CharCode(str[3]) - 48)

\* a < b for two TEXT values: byte by byte, a proper prefix first.
RECURSIVE TextLess(_, _)
TextLess(a, b) ==
    IF b = <<>> THEN FALSE
    ELSE IF a = <<>> THEN TRUE
    ELSE IF CharCode(Head(a)) # CharCode(Head(b))
         THEN CharCode(Head(a)) < CharCode(Head(b))
         ELSE TextLess(Tail(a), Tail(b))

----------------------------------------------------------------------------
(* The store's targets *)

MkTarget(id, scheme, host, path, at) ==
    [id |-> id,
     url |-> [scheme |-> scheme, host |-> host, path |-> path, frag |-> <<>>],
     canonical |-> [scheme |-> scheme, host |-> host, path |-> path],
     host |-> Hostname(host),
     createdAt |-> at]

\* The targets registered before the checker starts: two on different
\* hosts, or two on one host of which the second was stored with a URL
\* net/http cannot parse.
InitialTargets ==
    { { MkTarget(1, HTTP, <<"a">>, <<"/", "p">>, 1),
        MkTarget(2, HTTPS, <<"b">>, <<"/">>, 1) },
      { MkTarget(1, HTTP, <<"a">>, <<"/", "p">>, 1),
        MkTarget(2, HTTP, <<"a">>, <<"/", "%">>, 2) } }

\* ORDER BY created_at, id: created_at is a TEXT column.
TargetLess(a, b) ==
    \/ TextLess(FormatTime(a.createdAt), FormatTime(b.createdAt))
    \/ a.createdAt = b.createdAt /\ a.id < b.id

RECURSIVE SortTargets(_)
SortTargets(S) ==
    IF S = {} THEN <<>>
    ELSE LET m == CHOOSE x \in S : \A y \in S \ {x} : TargetLess(x, y)
         IN <<m>> \o SortTargets(S \ {m})

GetAllTargets == SortTargets(targets)

----------------------------------------------------------------------------
(* Host limiter *)

\* Acquire that never finds the host taken.
AcquireOK_Always(hs, host) == TRUE

\* HostLimiter.Acquire: TRUE iff the host is not in the set.
AcquireOK(hs, host) == host \notin hs

\* Acquire that returns true without recording the host.
AcquireSet_Forget(hs, host) == hs

\* HostLimiter.Acquire, line 28: hl.hosts[host] = struct{}{}
AcquireSet(hs, host) == hs \cup {host}

\* Release that compares host names without regard to case.
ReleaseSet_FoldCase(hs, host) == {x \in hs : ToLower(x) # ToLower(host)}

\* HostLimiter.Release
ReleaseSet(hs, host) == hs \ {host}

----------------------------------------------------------------------------
(* Worker pool *)

NoTarget == [id |-> 0]

IdleWorker ==
    [pc |-> "idle", target |-> NoTarget, attempts |-> 0, backoff |-> 0,
     statusCode |-> <<>>, errMsg |-> <<>>, startTime |-> 0,
     outcome |-> [kind |-> "none", code |-> 0], calls |-> 0, sleeps |-> <<>>,
     dbErr |-> FALSE]

\* retry with the lower end of the 5xx range excluded.
Retry_Above500(code, isErr) ==
    IF isErr THEN TRUE ELSE code > 500 /\ code <= 599

\* The closure retry(code, err) of performCheck.
Retry(code, isErr) ==
    IF isErr THEN TRUE ELSE code >= 500 /\ code <= 599

\* A receive that leaves the target in the queue.
WorkerReceive_Peek(w) ==
    /\ workers[w].pc = "idle"
    /\ jobs # <<>>
    /\ workers' = [workers EXCEPT ![w] =
                      [IdleWorker EXCEPT !.pc = "acquire", !.target = Head(jobs)]]
    /\ UNCHANGED <<jobs, closed, hosts, clock, results, server, chkVars, storeVars>>

\* for target := range p.jobs: take the head of the queue.
WorkerReceive(w) ==
    /\ workers[w].pc = "idle"
    /\ jobs # <<>>
    /\ workers' = [workers EXCEPT ![w] =
                      [IdleWorker EXCEPT !.pc = "acquire", !.target = Head(jobs)]]
    /\ jobs' = Tail(jobs)
    /\ UNCHANGED <<closed, hosts, clock, results, server, chkVars, storeVars>>

\* A worker loop that does not end when the channel is closed and drained:
\* the worker stays at the receive.
WorkerExit_StayAtReceive(w) ==
    /\ workers[w].pc = "idle"
    /\ jobs = <<>>
    /\ closed
    /\ UNCHANGED vars

\* The range loop ends on a closed, drained channel; defer p.wg.Done().
WorkerExit(w) ==
    /\ workers[w].pc = "idle"
    /\ jobs = <<>>
    /\ closed
    /\ workers' = [workers EXCEPT ![w].pc = "exited"]
    /\ UNCHANGED <<jobs, closed, hosts, clock, results, server, chkVars, storeVars>>

\* performCheck with the deferred Release registered before the Acquire
\* test: a probe that did not get the host releases it all the same.
PerformAcquire_DeferFirst(w) ==
    /\ workers[w].pc = "acquire"
    /\ LET h == workers[w].target.host IN
       IF AcquireOK(hosts, h)
       THEN /\ hosts' = AcquireSet(hosts, h)
            /\ workers' = [workers EXCEPT ![w].pc = "attempt",
                                          ![w].attempts = 0,
                                          ![w].backoff = InitialBackoff]
       ELSE /\ hosts' = ReleaseSet(hosts, h)
            /\ workers' = [workers EXCEPT ![w] = IdleWorker]
    /\ UNCHANGED <<jobs, closed, clock, results, server, chkVars, storeVars>>

\* performCheck, lines 81-89: Acquire or return.
PerformAcquire(w) ==
    /\ workers[w].pc = "acquire"
    /\ LET h == workers[w].target.host IN
       IF AcquireOK(hosts, h)
       THEN /\ hosts' = AcquireSet(hosts, h)
            /\ workers' = [workers EXCEPT ![w].pc = "attempt",
                                          ![w].attempts = 0,
                                          ![w].backoff = InitialBackoff]
       ELSE /\ hosts' = hosts
            /\ workers' = [workers EXCEPT ![w] = IdleWorker]
    /\ UNCHANGED <<jobs, closed, clock, results, server, chkVars, storeVars>>

\* AttemptStart that returns on a request-construction error instead of
\* breaking out of the loop to the write.
AttemptStart_ReturnOnReqErr(w) ==
    /\ workers[w].pc = "attempt"
    /\ clock < MaxClock
    /\ clock' = clock + 1
    /\ LET wk == workers[w] IN
       IF NewRequestOK(wk.target.canonical)
       THEN workers' = [workers EXCEPT ![w].pc = "inflight",
                                       ![w].attempts = wk.attempts + 1,
                                       ![w].startTime = clock + 1]
       ELSE workers' = [workers EXCEPT ![w].pc = "release",
                                       ![w].attempts = wk.attempts + 1,
                                       ![w].startTime = clock + 1,
                                       ![w].errMsg = <<"request">>,
                                       ![w].outcome = [kind |-> "reqerr", code |-> 0]]
    /\ UNCHANGED <<jobs, closed, hosts, results, server, chkVars, storeVars>>

\* Lines 104-111: attempts++, startTime = time.Now(), build the request.
AttemptStart(w) ==
    /\ workers[w].pc = "attempt"
    /\ clock < MaxClock
    /\ clock' = clock + 1
    /\ LET wk == workers[w] IN
       IF NewRequestOK(wk.target.canonical)
       THEN workers' = [workers EXCEPT ![w].pc = "inflight",
                                       ![w].attempts = wk.attempts + 1,
                                       ![w].startTime = clock + 1]
       ELSE workers' = [workers EXCEPT ![w].pc = "persist",
                                       ![w].attempts = wk.attempts + 1,
                                       ![w].startTime = clock + 1,
                                       ![w].errMsg = <<"request">>,
                                       ![w].outcome = [kind |-> "reqerr", code |-> 0]]
    /\ UNCHANGED <<jobs, closed, hosts, results, server, chkVars, storeVars>>

\* Lines 113-134 for one attempt whose round trip ended with `out`.
AfterAttempt(wk, out) ==
    LET isErr == out.kind = "err"
        sc == IF isErr THEN wk.statusCode ELSE <<out.code>>
        em == IF isErr THEN <<"transport">> ELSE wk.errMsg
        code == IF sc # <<>> THEN sc[1] ELSE 0
    IN [wk EXCEPT !.statusCode = sc,
                  !.errMsg = em,
                  !.outcome = out,
                  !.pc = IF wk.attempts < maxAttempts /\ Retry(code, isErr)
                         THEN "sleep" ELSE "persist"]

\* p.httpClient.Do returns: a response with some code, or a transport error.
AttemptDone(w) ==
    /\ workers[w].pc = "inflight"
    /\ \E out \in server :
          workers' = [workers EXCEPT ![w] = AfterAttempt(workers[w], out)]
    /\ UNCHANGED <<jobs, closed, hosts, clock, results, server, chkVars, storeVars>>

\* The retry branch with a constant pause: the sleep without the doubling.
BackoffSleep_NoDouble(w) ==
    /\ workers[w].pc = "sleep"
    /\ workers' = [workers EXCEPT ![w].pc = "attempt",
                                  ![w].sleeps = Append(workers[w].sleeps,
                                                       workers[w].backoff)]
    /\ UNCHANGED <<jobs, closed, hosts, clock, results, server, chkVars, storeVars>>

\* Lines 129-131: time.Sleep(backoff); backoff *= 2; continue (sleeps
\* keeps the durations, in ms, this probe has slept).
BackoffSleep(w) ==
    /\ workers[w].pc = "sleep"
    /\ workers' = [workers EXCEPT ![w].pc = "attempt",
                                  ![w].backoff = workers[w].backoff * 2,
                                  ![w].sleeps = Append(workers[w].sleeps,
                                                       workers[w].backoff)]
    /\ UNCHANGED <<jobs, closed, hosts, clock, results, server, chkVars, storeVars>>

\* The models.CheckResult built at lines 136-143 (final is the outcome of
\* the last attempt, kept for the properties).
ResultOf(wk) ==
    [targetID |-> wk.target.id,
     checkedAt |-> wk.startTime,
     statusCode |-> wk.statusCode,
     error |-> wk.errMsg,
     final |-> wk.outcome]

\* The write repeated until the store accepts it.
Persist_RetryOnError(w) ==
    /\ workers[w].pc = "persist"
    /\ \/ /\ results' = Append(results, ResultOf(workers[w]))
          /\ workers' = [workers EXCEPT ![w].pc = "release",
                                        ![w].calls = workers[w].calls + 1]
       \/ /\ results' = results
          /\ workers' = [workers EXCEPT ![w].calls = workers[w].calls + 1,
                                        ![w].dbErr = TRUE]
    /\ UNCHANGED <<jobs, closed, hosts, clock, server, chkVars, storeVars>>

\* Lines 136-146: p.store.CreateCheckResult; an error (dbErr) is only
\* logged.
Persist(w) ==
    /\ workers[w].pc = "persist"
    /\ \/ /\ results' = Append(results, ResultOf(workers[w]))
          /\ workers' = [workers EXCEPT ![w].pc = "release",
                                        ![w].calls = workers[w].calls + 1]
       \/ /\ results' = results
          /\ workers' = [workers EXCEPT ![w].pc = "release",
                                        ![w].calls = workers[w].calls + 1,
                                        ![w].dbErr = TRUE]
    /\ UNCHANGED <<jobs, closed, hosts, clock, server, chkVars, storeVars>>

\* Release as the last statement of performCheck instead of a defer,
\* skipped when the write of the result failed.
PerformRelease_NotAfterWriteError(w) ==
    /\ workers[w].pc = "release"
    /\ hosts' = IF workers[w].dbErr THEN hosts
                ELSE ReleaseSet(hosts, workers[w].target.host)
    /\ workers' = [workers EXCEPT ![w] = IdleWorker]
    /\ UNCHANGED <<jobs, closed, clock, results, server, chkVars, storeVars>>

\* The deferred p.hostLimiter.Release(target.Host) at function return.
PerformRelease(w) ==
    /\ workers[w].pc = "release"
    /\ hosts' = ReleaseSet(hosts, workers[w].target.host)
    /\ workers' = [workers EXCEPT ![w] = IdleWorker]
    /\ UNCHANGED <<jobs, closed, clock, results, server, chkVars, storeVars>>

\* Submit as a plain send that finds room in any queue.
SubmitTo_Unbounded(q, t) == Append(q, t)

\* WorkerPool.Submit: non-blocking send.
SubmitTo(q, t) == IF Len(q) < QueueCap THEN Append(q, t) ELSE q

----------------------------------------------------------------------------
(* Checker *)

\* Checker.Start: the goroutine begins with the initial scheduleChecks.
CheckerStart ==
    /\ chk.pc = "new"
    /\ chk' = [chk EXCEPT !.pc = "pass"]
    /\ UNCHANGED <<poolVars, stopChan, tickPending, passes, stopOnce, poolStop,
                   panicked, mainpc, graceExpired,
                   storeVars>>

\* scheduleChecks, lines 214-223: GetAllTargets; on error or no rows return.
PassBegin ==
    /\ chk.pc = "pass"
    /\ passes' = passes + 1
    /\ \/ chk' = [chk EXCEPT !.pc = IF GetAllTargets = <<>> THEN "select" ELSE "submit",
                                !.pending = GetAllTargets]
       \/ chk' = [chk EXCEPT !.pc = "select", !.pending = <<>>]
    /\ UNCHANGED <<poolVars, stopChan, tickPending, stopOnce, poolStop, panicked,
                   mainpc, graceExpired,
                   storeVars>>

\* The range loop of scheduleChecks taking the targets from the end.
PassSubmit_Reverse ==
    /\ chk.pc = "submit"
    /\ LET n == Len(chk.pending) IN
       /\ jobs' = SubmitTo(jobs, chk.pending[n])
       /\ chk' = [chk EXCEPT !.pending = SubSeq(chk.pending, 1, n - 1),
                             !.submitted = Append(chk.submitted, chk.pending[n].id),
                             !.pc = IF n = 1 THEN "select" ELSE "submit"]
    /\ UNCHANGED <<closed, workers, hosts, clock, results, server,
                   stopChan, tickPending, passes, stopOnce, poolStop, panicked,
                   mainpc, graceExpired, storeVars>>

\* scheduleChecks, lines 225-227: c.pool.Submit(t) for the next target
\* (chk.submitted keeps the ids Submit was called with, in call order).
PassSubmit ==
    /\ chk.pc = "submit"
    /\ jobs' = SubmitTo(jobs, Head(chk.pending))
    /\ chk' = [chk EXCEPT !.pending = Tail(chk.pending),
                          !.submitted = Append(chk.submitted, Head(chk.pending).id),
                          !.pc = IF Tail(chk.pending) = <<>> THEN "select" ELSE "submit"]
    /\ UNCHANGED <<closed, workers, hosts, clock, results, server,
                   stopChan, tickPending, passes, stopOnce, poolStop, panicked,
                   mainpc, graceExpired,
                   storeVars>>

\* The runtime delivers a tick into ticker.C (capacity 1).
TickerFire ==
    /\ chk.pc \in {"pass", "submit", "select"}
    /\ ~tickPending
    /\ passes < MaxPasses
    /\ tickPending' = TRUE
    /\ UNCHANGED <<poolVars, chk, stopChan, passes, stopOnce, poolStop, panicked,
                   mainpc, graceExpired,
                   storeVars>>

\* select case <-ticker.C
SelectTick ==
    /\ chk.pc = "select"
    /\ tickPending
    /\ tickPending' = FALSE
    /\ chk' = [chk EXCEPT !.pc = "pass"]
    /\ UNCHANGED <<poolVars, stopChan, passes, stopOnce, poolStop, panicked,
                   mainpc, graceExpired,
                   storeVars>>

\* select case <-c.stopChan: the goroutine calls c.pool.Stop().
SelectStop ==
    /\ chk.pc = "select"
    /\ stopChan
    /\ chk' = [chk EXCEPT !.pc = "poolstop"]
    /\ poolStop' = [poolStop EXCEPT ![0] = "call"]
    /\ UNCHANGED <<poolVars, stopChan, tickPending, passes, stopOnce, panicked,
                   mainpc, graceExpired,
                   storeVars>>

\* A goroutine that owns the pool calls WorkerPool.Stop (again).
StopCall(c) ==
    /\ poolStop[c] \in {"idle", "returned"}
    /\ poolStop' = [poolStop EXCEPT ![c] = "call"]
    /\ UNCHANGED <<poolVars, chk, stopChan, tickPending, passes, stopOnce,
                   panicked, mainpc, graceExpired,
                   storeVars>>

\* Stop without stopOnce: every caller closes the channel and waits.
StopEnter_NoOnce(c) ==
    /\ poolStop[c] = "call"
    /\ closed' = TRUE
    /\ panicked' = (panicked \/ closed)
    /\ poolStop' = [poolStop EXCEPT ![c] = "wait"]
    /\ UNCHANGED <<jobs, workers, hosts, clock, results, server,
                   chk, stopChan, tickPending, passes, stopOnce, mainpc, graceExpired,
                   storeVars>>

\* p.stopOnce.Do: a caller returns at once when the Once is done, waits on
\* the Once's mutex while another caller runs f, and else runs f, whose
\* first statement is close(p.jobs).
StopEnter(c) ==
    /\ poolStop[c] = "call"
    /\ IF stopOnce = "done"
       THEN /\ poolStop' = [poolStop EXCEPT ![c] = "returned"]
            /\ UNCHANGED <<closed, stopOnce, panicked>>
       ELSE /\ stopOnce = "free"
            /\ stopOnce' = "running"
            /\ closed' = TRUE
            /\ panicked' = (panicked \/ closed)
            /\ poolStop' = [poolStop EXCEPT ![c] = "wait"]
    /\ UNCHANGED <<jobs, workers, hosts, clock, results, server,
                   chk, stopChan, tickPending, passes, mainpc, graceExpired,
                   storeVars>>

\* Stop returning without p.wg.Wait().
StopWaitDone_NoWait(c) ==
    /\ poolStop[c] = "wait"
    /\ stopOnce' = "done"
    /\ poolStop' = [poolStop EXCEPT ![c] = "returned"]
    /\ UNCHANGED <<poolVars, chk, stopChan, tickPending, passes, panicked,
                   mainpc, graceExpired,
                   storeVars>>

\* p.wg.Wait() returns when every worker ran its deferred wg.Done; f
\* returns, the Once is done and Stop returns.
StopWaitDone(c) ==
    /\ poolStop[c] = "wait"
    /\ \A w \in DOMAIN workers : workers[w].pc = "exited"
    /\ stopOnce' = "done"
    /\ poolStop' = [poolStop EXCEPT ![c] = "returned"]
    /\ UNCHANGED <<poolVars, chk, stopChan, tickPending, passes, panicked,
                   mainpc, graceExpired,
                   storeVars>>

\* The stop case without its return: after c.pool.Stop() the goroutine
\* goes round the select loop again.
PoolStopped_KeepLooping ==
    /\ chk.pc = "poolstop"
    /\ poolStop[0] = "returned"
    /\ chk' = [chk EXCEPT !.pc = "select"]
    /\ UNCHANGED <<poolVars, stopChan, tickPending, passes, stopOnce, poolStop,
                   panicked, mainpc, graceExpired,
                   storeVars>>

\* c.pool.Stop() returned: the goroutine returns (ticker.Stop, c.wg.Done).
PoolStopped ==
    /\ chk.pc = "poolstop"
    /\ poolStop[0] = "returned"
    /\ chk' = [chk EXCEPT !.pc = "exited"]
    /\ UNCHANGED <<poolVars, stopChan, tickPending, passes, stopOnce, poolStop,
                   panicked, mainpc, graceExpired,
                   storeVars>>

\* Checker.Stop, called by run() after Start: close(c.stopChan).
CheckerStop ==
    /\ mainpc = "running"
    /\ chk.pc # "new"
    /\ ~stopChan
    /\ stopChan' = TRUE
    /\ mainpc' = "stopwait"
    /\ UNCHANGED <<poolVars, chk, tickPending, passes, stopOnce, poolStop,
                   panicked, graceExpired, storeVars>>

\* Checker.Stop returning without c.wg.Wait().
CheckerStopReturn_NoWait ==
    /\ mainpc = "stopwait"
    /\ mainpc' = "stopped"
    /\ UNCHANGED <<poolVars, chk, stopChan, tickPending, passes, stopOnce,
                   poolStop, panicked, graceExpired, storeVars>>

\* Checker.Stop: c.wg.Wait() returns once the goroutine has returned.
CheckerStopReturn ==
    /\ mainpc = "stopwait"
    /\ chk.pc = "exited"
    /\ mainpc' = "stopped"
    /\ UNCHANGED <<poolVars, chk, stopChan, tickPending, passes, stopOnce,
                   poolStop, panicked, graceExpired, storeVars>>

\* Checker.Stop with its body under a sync.Once, as WorkerPool.Stop has
\* it: the second call returns.
CheckerStopAgain_Once ==
    /\ mainpc = "stopped"
    /\ stopChan
    /\ mainpc' = "stopped-twice"
    /\ UNCHANGED <<poolVars, chk, stopChan, tickPending, passes, stopOnce,
                   poolStop, panicked, graceExpired, storeVars>>

\* Checker.Stop called again after it returned: close(c.stopChan) on the
\* closed channel panics, before c.wg.Wait().
CheckerStopAgain ==
    /\ mainpc = "stopped"
    /\ stopChan
    /\ panicked' = TRUE
    /\ mainpc' = "panic"
    /\ UNCHANGED <<poolVars, chk, stopChan, tickPending, passes, stopOnce,
                   poolStop, graceExpired, storeVars>>

\* The timer of shutdownCtx (context.WithTimeout(..., cfg.ShutdownGrace),
\* created when the signal arrives, just before checkerSvc.Stop()) fires.
GraceExpire ==
    /\ mainpc \in {"stopwait", "stopped"}
    /\ ~graceExpired
    /\ graceExpired' = TRUE
    /\ UNCHANGED <<poolVars, chk, stopChan, tickPending, passes, stopOnce,
                   poolStop, panicked, mainpc, storeVars>>

\* server.Shutdown(shutdownCtx) returns, with no request in flight at
\* once, and run() returns.
ServerShutdown ==
    /\ mainpc = "stopped"
    /\ \/ \A r \in DOMAIN reqs : reqs[r].pc = "idle"
       \/ graceExpired
    /\ mainpc' = "exit"
    /\ UNCHANGED <<poolVars, chk, stopChan, tickPending, passes, stopOnce,
                   poolStop, panicked, graceExpired, storeVars>>

----------------------------------------------------------------------------
(* POST /v1/targets and SQLiteStore.CreateTarget *)

(* SQLite's isolation, as the code relies on it: a transaction reads the    *)
(* committed rows and keeps a read lock from its first statement on; its    *)
(* first write takes the single write lock or fails busy; COMMIT fails busy *)
(* while another transaction still holds a read lock; the rows a            *)
(* transaction wrote become visible at its COMMIT, all at once.             *)

IdleReq ==
    [pc |-> "idle", raw |-> <<>>, key |-> <<>>, target |-> NoTarget, status |-> 0]

\* Handlers.CreateTarget, lines 60-67.
BuildTarget(id, raw, canonical, now) ==
    [id |-> id, url |-> raw, canonical |-> canonical,
     host |-> Hostname(canonical.host), createdAt |-> now]

\* The handler answering 201 for every target the store returns.
StatusFor_Created(err) ==
    IF err \in {"nil", "dup"} THEN 201 ELSE 500

\* Handlers.CreateTarget, lines 78-88: the status for the store's error.
StatusFor(err) ==
    IF err = "nil" THEN 201
    ELSE IF err = "dup" THEN 200
    ELSE 500

\* The error returned with the target found through a recorded key
\* (store.go line 102: the result of getTargetByIDTx, whose error is nil).
ReplayErr == "nil"

\* The conflict path answering with a nil error.
ConflictErr_Nil == "nil"

\* The error returned with the pre-existing target (store.go line 127).
ConflictErr == "dup"

\* A conflict test on the original URL instead of the canonical one.
CanonicalConflict_OnURL(rows, t) == \E x \in rows : x.url = t.url

\* ON CONFLICT(canonical_url): a row with this canonical_url exists.
CanonicalConflict(rows, t) == \E x \in rows : x.canonical = t.canonical

\* An idempotency_keys table in which no key is ever found.
KeyRows_None(key) == {}

\* SELECT target_id FROM idempotency_keys WHERE key = ?
KeyRows(key) == {row \in idem : row.key = key[1]}

\* What every return of CreateTarget does: the deferred tx.Rollback (a
\* no-op after Commit) releases the locks, and the handler answers.
Finish(r, t, err, replayed) ==
    /\ reqs' = [reqs EXCEPT ![r] = [IdleReq EXCEPT !.status = StatusFor(err)]]
    /\ responses' =
          IF err \in {"nil", "dup"}
          THEN Append(responses,
                      [raw |-> reqs[r].raw, canonical |-> reqs[r].target.canonical,
                       key |-> reqs[r].key, id |-> t.id, url |-> t.url,
                       status |-> StatusFor(err), err |-> err,
                       replayed |-> replayed])
          ELSE responses
    /\ dbWriter' = IF dbWriter = r THEN 0 ELSE dbWriter
    /\ dbReaders' = dbReaders \ {r}

\* Handlers.CreateTarget up to the store call, and BeginTx.
HandleCreateTarget(r) ==
    /\ reqs[r].pc = "idle"
    /\ \E raw \in RawURLs, key \in KeyPtrs :
          LET c == Canonicalize(raw) IN
          IF ~c.ok
          THEN /\ reqs' = [reqs EXCEPT ![r] = [IdleReq EXCEPT !.status = 400]]
               /\ UNCHANGED <<clock, nextId>>
          ELSE /\ nextId < MaxIds
               /\ nextId' = nextId + 1
               /\ clock' = clock + 1
               /\ reqs' = [reqs EXCEPT ![r] =
                              [pc |-> IF key # <<>> THEN "lookup" ELSE "insert",
                               raw |-> raw, key |-> key,
                               target |-> BuildTarget(nextId + 1, raw, c.url, clock + 1),
                               status |-> 0]]
    /\ UNCHANGED <<targets, idem, responses, dbWriter, dbReaders, pipelineVars, lst, canon, lim>>

\* Lines 97-107: look the key up; a hit returns the target bound to it.
TxLookup(r) ==
    /\ reqs[r].pc = "lookup"
    /\ IF KeyRows(reqs[r].key) # {}
       THEN LET id == (CHOOSE row \in KeyRows(reqs[r].key) : TRUE).targetID
                found == {t \in targets : t.id = id}
            IN IF found = {}
               THEN Finish(r, NoTarget, "notfound", TRUE)
               ELSE Finish(r, CHOOSE t \in found : TRUE, ReplayErr, TRUE)
       ELSE /\ reqs' = [reqs EXCEPT ![r].pc = "insert"]
            /\ dbReaders' = dbReaders \cup {r}
            /\ UNCHANGED <<responses, dbWriter>>
    /\ UNCHANGED <<targets, idem, clock, nextId, pipelineVars, lst, canon, lim>>

\* The target INSERT executed outside the transaction: the row is stored
\* at once, whatever happens to the statements after it.
TxInsert_Autocommit(r) ==
    /\ reqs[r].pc = "insert"
    /\ IF dbWriter \notin {0, r}
       THEN Finish(r, NoTarget, "busy", FALSE) /\ UNCHANGED targets
       ELSE IF CanonicalConflict(targets, reqs[r].target)
       THEN /\ Finish(r, CHOOSE x \in targets : x.canonical = reqs[r].target.canonical,
                      ConflictErr, FALSE)
            /\ UNCHANGED targets
       ELSE IF \E x \in targets : x.id = reqs[r].target.id
       THEN Finish(r, NoTarget, "constraint", FALSE) /\ UNCHANGED targets
       ELSE /\ reqs' = [reqs EXCEPT ![r].pc =
                           IF reqs[r].key # <<>> THEN "insertkey" ELSE "commit"]
            /\ dbWriter' = r
            /\ dbReaders' = dbReaders \cup {r}
            /\ targets' = targets \cup {reqs[r].target}
            /\ UNCHANGED responses
    /\ UNCHANGED <<idem, clock, nextId, pipelineVars, lst, canon, lim>>

\* Lines 109-128: INSERT ... ON CONFLICT(canonical_url) DO NOTHING; with no
\* row inserted, return the existing target and ErrDuplicateKey.
TxInsert(r) ==
    /\ reqs[r].pc = "insert"
    /\ IF dbWriter \notin {0, r}
       THEN Finish(r, NoTarget, "busy", FALSE)
       ELSE IF CanonicalConflict(targets, reqs[r].target)
       THEN Finish(r, CHOOSE x \in targets : x.canonical = reqs[r].target.canonical,
                   ConflictErr, FALSE)
       ELSE IF \E x \in targets : x.id = reqs[r].target.id
       THEN Finish(r, NoTarget, "constraint", FALSE)
       ELSE /\ reqs' = [reqs EXCEPT ![r].pc =
                           IF reqs[r].key # <<>> THEN "insertkey" ELSE "commit"]
            /\ dbWriter' = r
            /\ dbReaders' = dbReaders \cup {r}
            /\ UNCHANGED responses
    /\ UNCHANGED <<targets, idem, clock, nextId, pipelineVars, lst, canon, lim>>

\* Lines 130-135: INSERT INTO idempotency_keys.
TxInsertKey(r) ==
    /\ reqs[r].pc = "insertkey"
    /\ IF KeyRows(reqs[r].key) # {}
       THEN Finish(r, NoTarget, "constraint", FALSE)
       ELSE /\ reqs' = [reqs EXCEPT ![r].pc = "commit"]
            /\ UNCHANGED <<responses, dbWriter, dbReaders>>
    /\ UNCHANGED <<targets, idem, clock, nextId, pipelineVars, lst, canon, lim>>

\* Lines 137-140: tx.Commit makes the inserted rows visible.
TxCommit(r) ==
    /\ reqs[r].pc = "commit"
    /\ IF dbReaders \ {r} # {}
       THEN /\ Finish(r, NoTarget, "busy", FALSE)
            /\ UNCHANGED <<targets, idem>>
       ELSE /\ targets' = targets \cup {reqs[r].target}
            /\ idem' = idem \cup
                  {[key |-> reqs[r].key[i], targetID |-> reqs[r].target.id] :
                      i \in 1..Len(reqs[r].key)}
            /\ Finish(r, reqs[r].target, "nil", FALSE)
    /\ UNCHANGED <<clock, nextId, pipelineVars, lst, canon, lim>>

\* A statement or the commit fails (I/O error, cancelled request context):
\* CreateTarget returns the wrapped error and the transaction rolls back.
TxFail(r) ==
    /\ reqs[r].pc \in {"lookup", "insert", "insertkey", "commit"}
    /\ Finish(r, NoTarget, "io", FALSE)
    /\ UNCHANGED <<targets, idem, clock, nextId, pipelineVars, lst, canon, lim>>

----------------------------------------------------------------------------
(* GET /v1/targets and GET /v1/targets/{id}/results *)

\* The zero time.Time and the empty id.
ZeroTime == -1
NoID == 0

\* The limit query parameter as sent: absent, or an integer.
LimitInputs == {<<>>, <<0>>, <<1>>, <<2>>, <<500>>, <<501>>, <<1000>>, <<1001>>}

\* The host query parameter as sent.
HostInputs == {<<>>, <<"A">>}

\* The {target_id} of a results request: stored with results, stored
\* without results, not stored.
ResultIdInputs == {11, 13, 99}

\* The since query parameter as sent: absent, or a time.
SinceInputs == {<<>>, <<10>>, <<11>>}

\* The limit the handlers use: the parameter if it is in 1..max, else the
\* default.
ParseLimit(l, default, max) ==
    IF l # <<>> /\ l[1] > 0 /\ l[1] <= max THEN l[1] ELSE default

\* The first n elements of q.
Take(q, n) == SubSeq(q, 1, IF n < Len(q) THEN n ELSE Len(q))

\* A cursor test that lets the cursor's own row through.
RowAfter_Inclusive(t, afterText, afterID) ==
    \/ TextLess(afterText, FormatTime(t.createdAt))
    \/ afterText = FormatTime(t.createdAt) /\ afterID <= t.id

\* (created_at, id) > (?, ?) on the TEXT column and the id.
RowAfter(t, afterText, afterID) ==
    \/ TextLess(afterText, FormatTime(t.createdAt))
    \/ afterText = FormatTime(t.createdAt) /\ afterID < t.id

\* SQLiteStore.ListTargets.
StoreListTargets(rows, host, afterTime, afterID, limit) ==
    LET sel == {t \in rows :
                   /\ host # <<>> => t.host = host
                   /\ (afterTime # ZeroTime /\ afterID # NoID)
                         => RowAfter(t, FormatTime(afterTime), afterID)}
    IN Take(SortTargets(sel), limit)

\* The page_token the handler decodes: the text "<rfc3339nano>|<id>" under
\* base64, kept here as the pair of its two parts.
DecodeToken(token) ==
    IF token = <<>> THEN [time |-> ZeroTime, id |-> NoID]
    ELSE [time |-> ParseTime(token[1]), id |-> token[2]]

\* A token on every page that has items.
NextPageToken_NonEmpty(items, limit) ==
    IF items # <<>>
    THEN <<FormatTime(items[Len(items)].createdAt), items[Len(items)].id>>
    ELSE <<>>

\* Handlers.ListTargets, lines 134-138.
NextPageToken(items, limit) ==
    IF Len(items) = limit
    THEN <<FormatTime(items[Len(items)].createdAt), items[Len(items)].id>>
    ELSE <<>>

\* One GET /v1/targets of a client that starts a listing or follows the
\* next_page_token of its last page, keeping its host filter (seen: the
\* ids received since the listing began; first: the rows stored when it
\* began).
HandleListTargets ==
    /\ \/ lst.pc = "idle"
       \/ lst.pc = "targets" /\ lst.token # <<>>
    /\ \E l \in LimitInputs, h \in HostInputs :
          /\ lst.pc = "targets" => h = lst.hostParam
          /\ LET limit == ParseLimit(l, 50, 500)
                 token == IF lst.pc = "idle" THEN <<>> ELSE lst.token
                 seen == IF lst.pc = "idle" THEN <<>> ELSE lst.seen
                 first == IF lst.pc = "idle" THEN targets ELSE lst.first
                 after == DecodeToken(token)
                 items == StoreListTargets(targets, ToLower(h), after.time,
                                           after.id, limit)
             IN \/ lst' = [pc |-> "targets", hostParam |-> h, rawLimit |-> l,
                           limit |-> limit, after |-> after, status |-> 200,
                           page |-> items,
                           token |-> NextPageToken(items, limit),
                           seen |-> seen \o [i \in 1..Len(items) |-> items[i].id],
                           first |-> first]
                \/ lst' = [pc |-> "failed", status |-> 500]
    /\ UNCHANGED <<targets, idem, reqs, responses, nextId, dbWriter, dbReaders,
                   canon, lim, clock, pipelineVars>>

\* A lookup that finds every id.
TargetExists_Always(rows, id) == TRUE

\* SQLiteStore.GetTargetByID finds a row.
TargetExists(rows, id) == \E t \in rows : t.id = id

\* ORDER BY checked_at DESC on the TEXT column.
RECURSIVE SortResultsDesc(_)
SortResultsDesc(S) ==
    IF S = {} THEN <<>>
    ELSE LET m == CHOOSE x \in S : \A y \in S \ {x} :
                      TextLess(FormatTime(y.checkedAt), FormatTime(x.checkedAt))
         IN <<m>> \o SortResultsDesc(S \ {m})

\* SQLiteStore.ListCheckResultsByTargetID.
StoreListResults(rows, id, since, limit) ==
    LET sel == {rows[i] : i \in
                   {j \in 1..Len(rows) :
                       /\ rows[j].targetID = id
                       /\ since # <<>> =>
                             TextLess(FormatTime(since[1]),
                                      FormatTime(rows[j].checkedAt))}}
    IN Take(SortResultsDesc(sel), limit)

\* One GET /v1/targets/{id}/results.
HandleListCheckResults ==
    /\ lst.pc = "idle"
    /\ \E id \in ResultIdInputs, l \in LimitInputs, s \in SinceInputs :
          LET limit == ParseLimit(l, 100, 1000) IN
          \/ lst' = [pc |-> "failed", status |-> 500]
          \/ /\ ~TargetExists(targets, id)
             /\ lst' = [pc |-> "results", id |-> id, rawLimit |-> l,
                        limit |-> limit, since |-> s, status |-> 404,
                        items |-> <<>>]
          \/ /\ TargetExists(targets, id)
             /\ lst' = [pc |-> "results", id |-> id, rawLimit |-> l,
                        limit |-> limit, since |-> s, status |-> 200,
                        items |-> StoreListResults(results, id, s, limit)]
    /\ UNCHANGED <<targets, idem, reqs, responses, nextId, dbWriter, dbReaders,
                   canon, lim, clock, pipelineVars>>

----------------------------------------------------------------------------
(* The check pipeline *)

\* No list request and no Canonicalize call has been made.
NoReads ==
    /\ lst = [pc |-> "idle"]
    /\ canon = [pc |-> "idle"]
    /\ lim = [op |-> "none"]

NoAPI ==
    /\ reqs = <<>>
    /\ responses = <<>>
    /\ nextId = 0
    /\ dbWriter = 0
    /\ dbReaders = {}
    /\ NoReads

InitPool ==
    /\ jobs = <<>>
    /\ closed = FALSE
    /\ workers = [w \in Workers |-> IdleWorker]
    /\ hosts = {}
    /\ results = <<>>
    /\ chk = [pc |-> "new", pending |-> <<>>, submitted |-> <<>>]
    /\ stopChan = FALSE
    /\ tickPending = FALSE
    /\ passes = 0
    /\ stopOnce = "free"
    /\ poolStop = [c \in Callers |-> "idle"]
    /\ panicked = FALSE
    /\ mainpc = "running"
    /\ graceExpired = FALSE

\* A running checker over a store that holds targets; the probed servers
\* fail, answer 200 or answer 500.
Init ==
    /\ InitPool
    /\ clock = 2
    /\ targets \in InitialTargets
    /\ idem = {}
    /\ server = {TransportError, Response(200), Response(500)}
    /\ NoAPI

WorkerStep ==
    \/ \E w \in Workers : WorkerReceive(w)
    \/ \E w \in Workers : PerformAcquire(w)
    \/ \E w \in Workers : AttemptStart(w)
    \/ \E w \in Workers : AttemptDone(w)
    \/ \E w \in Workers : BackoffSleep(w)
    \/ \E w \in Workers : Persist(w)
    \/ \E w \in Workers : PerformRelease(w)

Next ==
    \/ WorkerStep
    \/ CheckerStart
    \/ PassBegin
    \/ PassSubmit
    \/ TickerFire
    \/ SelectTick

Spec == Init /\ [][Next]_vars

\* Direct Submit calls on a fresh pool (as the pool's tests do), probed
\* against servers that can answer with every code of Codes.
InitProbe ==
    /\ InitPool
    /\ clock = 2
    /\ targets \in InitialTargets
    /\ idem = {}
    /\ server = Outcomes
    /\ NoAPI

SubmitDirect ==
    /\ passes < MaxPasses
    /\ passes' = passes + 1
    /\ \E t \in targets : jobs' = SubmitTo(jobs, t)
    /\ UNCHANGED <<closed, workers, hosts, clock, results, server,
                   chk, stopChan, tickPending, stopOnce, poolStop, panicked,
                   mainpc, graceExpired,
                   storeVars>>

NextProbe ==
    \/ WorkerStep
    \/ SubmitDirect

SpecProbe == InitProbe /\ [][NextProbe]_vars

\* The running checker of Spec, stopped by run() at any moment.
NextShutdown ==
    \/ Next
    \/ \E w \in Workers : WorkerExit(w)
    \/ CheckerStop
    \/ SelectStop
    \/ StopEnter(0)
    \/ StopWaitDone(0)
    \/ PoolStopped
    \/ CheckerStopReturn

SpecShutdown == Init /\ [][NextShutdown]_vars

\* A checker that makes its initial pass and is stopped by run() at any
\* moment after Start, with every goroutine scheduled fairly: a worker that
\* can take a step takes one (HTTP attempts end, by response or by the
\* client's timeout, and store calls return), and so do the ticker
\* goroutine and a caller returning from Stop. When run() calls
\* Checker.Stop is left open.
InitLive ==
    /\ InitPool
    /\ clock = 0
    /\ targets \in InitialTargets
    /\ idem = {}
    /\ server = {TransportError, Response(200), Response(500)}
    /\ NoAPI

TickerGoroutine ==
    \/ CheckerStart
    \/ PassBegin
    \/ PassSubmit
    \/ SelectStop
    \/ StopEnter(0)
    \/ StopWaitDone(0)
    \/ PoolStopped

WorkerGoroutine(w) ==
    \/ WorkerReceive(w)
    \/ PerformAcquire(w)
    \/ AttemptStart(w)
    \/ AttemptDone(w)
    \/ BackoffSleep(w)
    \/ Persist(w)
    \/ PerformRelease(w)
    \/ WorkerExit(w)

NextLive ==
    \/ \E w \in Workers : WorkerGoroutine(w)
    \/ TickerGoroutine
    \/ CheckerStop
    \/ CheckerStopReturn

FairLive ==
    /\ \A w \in Workers : WF_vars(WorkerGoroutine(w))
    /\ WF_vars(TickerGoroutine)
    /\ WF_vars(CheckerStopReturn)

SpecLive == InitLive /\ [][NextLive]_vars /\ FairLive

\* A checker over two targets of one host and servers that answer 500,
\* whose owner calls Checker.Stop and, after it returned, calls it again.
InitRestop ==
    /\ InitPool
    /\ clock = 2
    /\ targets = { MkTarget(1, HTTP, <<"a">>, <<"/", "p">>, 1),
                   MkTarget(2, HTTP, <<"a">>, <<"/", "%">>, 2) }
    /\ idem = {}
    /\ server = {Response(500)}
    /\ NoAPI

NextRestop ==
    \/ NextShutdown
    \/ CheckerStopAgain

SpecRestop == InitRestop /\ [][NextRestop]_vars

\* The shutdown sequence of run() with its grace deadline, over servers
\* that answer 200 or fail in transport.
InitGrace ==
    /\ InitPool
    /\ clock = 2
    /\ targets \in InitialTargets
    /\ idem = {}
    /\ server = {TransportError, Response(200)}
    /\ NoAPI

NextGrace ==
    \/ NextShutdown
    \/ GraceExpire
    \/ ServerShutdown

SpecGrace == InitGrace /\ [][NextGrace]_vars

\* A pool of its own: bursts of Submit calls, then Stop called by several
\* goroutines, any number of times; the probed servers answer 200 or 500.
InitBurst ==
    /\ InitPool
    /\ clock = 2
    /\ targets \in InitialTargets
    /\ idem = {}
    /\ server = {Response(200), Response(500)}
    /\ NoAPI

\* A Submit call of the pool's owner, who submits nothing once it has
\* called Stop.
SubmitBurst ==
    /\ passes < MaxSubmits
    /\ \A c \in Callers : poolStop[c] = "idle"
    /\ passes' = passes + 1
    /\ \E t \in targets : jobs' = SubmitTo(jobs, t)
    /\ UNCHANGED <<closed, workers, hosts, clock, results, server,
                   chk, stopChan, tickPending, stopOnce, poolStop, panicked,
                   mainpc, graceExpired,
                   storeVars>>

NextBurst ==
    \/ WorkerStep
    \/ \E w \in Workers : WorkerExit(w)
    \/ SubmitBurst
    \/ \E c \in Stoppers : StopCall(c)
    \/ \E c \in Stoppers : StopEnter(c)
    \/ \E c \in Stoppers : StopWaitDone(c)

SpecBurst == InitBurst /\ [][NextBurst]_vars

\* The API over an empty database, with the checker not started.
InitStore ==
    /\ InitPool
    /\ clock = 0
    /\ targets = {}
    /\ idem = {}
    /\ server = {}
    /\ reqs = [r \in Slots |-> IdleReq]
    /\ responses = <<>>
    /\ nextId = 0
    /\ dbWriter = 0
    /\ dbReaders = {}
    /\ NoReads

NextStore ==
    \/ \E r \in Slots : HandleCreateTarget(r)
    \/ \E r \in Slots : TxLookup(r)
    \/ \E r \in Slots : TxInsert(r)
    \/ \E r \in Slots : TxInsertKey(r)
    \/ \E r \in Slots : TxCommit(r)
    \/ \E r \in Slots : TxFail(r)

SpecStore == InitStore /\ [][NextStore]_vars

\* The rows of a store that has been in use: created_at values with and
\* without a sub-second part, two rows of one instant, ids unrelated to
\* the order of creation.
ListedTargets ==
    { MkTarget(12, HTTP, <<"a">>, <<"/", "x">>, 10),
      MkTarget(11, HTTP, <<"a">>, <<"/", "y">>, 11),
      MkTarget(13, HTTP, <<"b">>, <<"/", "z">>, 11) }

MkResult(id, at) ==
    [targetID |-> id, checkedAt |-> at, statusCode |-> <<200>>,
     error |-> <<>>, final |-> Response(200)]

ListedResults ==
    << MkResult(11, 9), MkResult(12, 9), MkResult(11, 10), MkResult(11, 11) >>

\* The API over that store, the checker not started, with room for one
\* more registration.
InitList ==
    /\ jobs = <<>>
    /\ closed = FALSE
    /\ workers = [w \in Workers |-> IdleWorker]
    /\ hosts = {}
    /\ chk = [pc |-> "new", pending |-> <<>>, submitted |-> <<>>]
    /\ stopChan = FALSE
    /\ tickPending = FALSE
    /\ passes = 0
    /\ stopOnce = "free"
    /\ poolStop = [c \in Callers |-> "idle"]
    /\ panicked = FALSE
    /\ mainpc = "running"
    /\ graceExpired = FALSE
    /\ clock = 11
    /\ targets = ListedTargets
    /\ idem = {}
    /\ server = {}
    /\ reqs = [r \in Slots |-> IdleReq]
    /\ responses = <<>>
    /\ nextId = MaxIds - 1
    /\ dbWriter = 0
    /\ dbReaders = {}
    /\ NoReads
    /\ results = ListedResults

NextList ==
    \/ NextStore
    \/ HandleListTargets
    \/ HandleListCheckResults

SpecList == InitList /\ [][NextList]_vars

----------------------------------------------------------------------------
(* A HostLimiter called directly *)

\* The host strings of the calls: some differ in case only.
LimiterHosts == {<<"a">>, <<"A">>, <<"b">>, <<"B">>, <<"a", "b">>}

\* hl.Acquire(h), under hl.mu.
LimiterAcquire ==
    \E h \in LimiterHosts :
        /\ lim' = [op |-> "acquire", host |-> h, ok |-> AcquireOK(hosts, h)]
        /\ hosts' = IF AcquireOK(hosts, h) THEN AcquireSet(hosts, h) ELSE hosts
        /\ UNCHANGED <<jobs, closed, workers, clock, results, server, chkVars,
                       targets, idem, reqs, responses, nextId, dbWriter,
                       dbReaders, lst, canon>>

\* hl.Release(h), under hl.mu.
LimiterRelease ==
    \E h \in LimiterHosts :
        /\ lim' = [op |-> "release", host |-> h]
        /\ hosts' = ReleaseSet(hosts, h)
        /\ UNCHANGED <<jobs, closed, workers, clock, results, server, chkVars,
                       targets, idem, reqs, responses, nextId, dbWriter,
                       dbReaders, lst, canon>>

\* NewHostLimiter(): an empty map.
InitLimiter ==
    /\ InitPool
    /\ clock = 0
    /\ targets = {}
    /\ idem = {}
    /\ server = {}
    /\ NoAPI

NextLimiter ==
    \/ LimiterAcquire
    \/ LimiterRelease

SpecLimiter == InitLimiter /\ [][NextLimiter]_vars

----------------------------------------------------------------------------
(* urlutil.Canonicalize applied to its own output *)

\* A caller hands a string to Canonicalize.
CanonicalizeOnce ==
    /\ canon.pc = "idle"
    /\ \E str \in CanonInputs :
         canon' = [pc |-> "once", input |-> str, first |-> CanonicalizeString(str)]
    /\ UNCHANGED <<poolVars, chkVars, targets, idem, reqs, responses, nextId,
                   dbWriter, dbReaders, lst, lim>>

\* The caller hands the string it got back to Canonicalize again.
CanonicalizeAgain ==
    /\ canon.pc = "once"
    /\ canon.first.ok
    /\ canon' = [pc |-> "twice", input |-> canon.input, first |-> canon.first,
                 second |-> CanonicalizeString(canon.first.str)]
    /\ UNCHANGED <<poolVars, chkVars, targets, idem, reqs, responses, nextId,
                   dbWriter, dbReaders, lst, lim>>

InitCanon ==
    /\ InitPool
    /\ clock = 0
    /\ targets = {}
    /\ idem = {}
    /\ server = {}
    /\ NoAPI

NextCanon ==
    \/ CanonicalizeOnce
    \/ CanonicalizeAgain

SpecCanon == InitCanon /\ [][NextCanon]_vars

----------------------------------------------------------------------------
(* Properties of the probe and the pool *)

InProbe(w) == workers[w].pc \in {"attempt", "inflight", "sleep", "persist", "release"}

\* C1: for every host at most one worker is between a successful Acquire
\* and its Release for a target of that host.
C1_OneProbePerHost ==
    \A w1, w2 \in Workers :
        (w1 # w2 /\ InProbe(w1) /\ InProbe(w2))
            => workers[w1].target.host # workers[w2].target.host

\* A worker holds a host in the middle of its retries while another worker
\* has dequeued a target of the same host and is about to call Acquire.
C1_Witness ==
    \E w1, w2 \in Workers :
        /\ w1 # w2
        /\ workers[w1].pc = "sleep"
        /\ workers[w2].pc = "acquire"
        /\ workers[w1].target.host = workers[w2].target.host

ExactlyOne(r) == (r.statusCode # <<>>) # (r.error # <<>>)

\* C2: every CheckResult handed to CreateCheckResult has exactly one of
\* StatusCode and Error non-nil.
C2_ExactlyOneOfStatusAndError ==
    \A w \in Workers :
        workers[w].pc = "persist" => ExactlyOne(ResultOf(workers[w]))

\* C3: the stored row has a StatusCode iff the final attempt got a
\* response, the code is that response's, and nothing of an earlier
\* attempt is in the row.
C3_RowIsFinalAttempt ==
    \A i \in 1..Len(results) :
        LET r == results[i] IN
        IF r.final.kind = "resp"
        THEN r.statusCode = <<r.final.code>> /\ r.error = <<>>
        ELSE r.statusCode = <<>> /\ r.error # <<>>

\* C4: a probe that acquired its host returns having called
\* CreateCheckResult exactly once; a probe that failed to acquire returns
\* having called it zero times and leaves check_results as it was.
C4_OneWritePerProbe ==
    [][\A w \in Workers :
         /\ (workers[w].pc = "release" /\ workers'[w].pc = "idle")
                => workers[w].calls = 1
         /\ (workers[w].pc = "acquire" /\ workers'[w].pc = "idle")
                => (workers[w].calls = 0 /\ results' = results)
         /\ (InProbe(w) /\ workers'[w].pc = "idle")
                => workers[w].pc = "release"]_vars

\* A probe is past its write after three attempts, with one call made.
C4_Witness ==
    \E w \in Workers :
        /\ workers[w].pc = "release"
        /\ workers[w].attempts = maxAttempts
        /\ workers[w].calls = 1

Retryable(o) ==
    \/ o.kind = "err"
    \/ o.kind = "resp" /\ o.code >= 500 /\ o.code <= 599

\* C5: at most 3 attempts; after an attempt another one follows iff fewer
\* than 3 were made and the outcome is a transport error or a code in
\* 500..599.
C5_RetryPolicy ==
    \A w \in Workers :
        /\ workers[w].attempts <= 3
        /\ workers[w].pc = "sleep"
              => (workers[w].attempts < 3 /\ Retryable(workers[w].outcome))
        /\ workers[w].pc = "persist"
              => ~(workers[w].attempts < 3 /\ Retryable(workers[w].outcome))

\* The third attempt ended in a 599 and the probe goes on to its write.
C5_Witness ==
    \E w \in Workers :
        /\ workers[w].pc = "persist"
        /\ workers[w].attempts = 3
        /\ workers[w].outcome = Response(599)

\* C6: the rows of one target, in insertion order, have strictly
\* increasing checked_at.
C6_CheckedAtIncreasing ==
    \A i, j \in 1..Len(results) :
        (i < j /\ results[i].targetID = results[j].targetID)
            => results[i].checkedAt < results[j].checkedAt

\* Two probes of one target, submitted by two passes, have both written
\* their row.
C6_Witness ==
    \E i, j \in 1..Len(results) :
        /\ i < j
        /\ results[i].targetID = results[j].targetID
        /\ passes = 2

----------------------------------------------------------------------------
(* Properties of the pool's bounds and of shutdown *)

\* The workers inside performCheck.
Probing == {w \in DOMAIN workers : workers[w].pc \notin {"idle", "exited"}}

\* C14: in every state at most maxConcurrency workers are inside
\* performCheck.
C14_AtMostMaxConcurrency == Cardinality(Probing) <= MaxConcurrency

\* Every worker is in a round trip while a target waits in the queue.
C14_Witness ==
    /\ \A w \in Workers : workers[w].pc = "inflight"
    /\ jobs # <<>>

\* C15: the queue never holds more than 2 * maxConcurrency targets; on an
\* unstopped pool a Submit call can always take its step; that step leaves
\* a full queue as it is and appends to any other.
C15_SubmitNeverBlocks ==
    /\ [](Len(jobs) <= 2 * MaxConcurrency)
    /\ []((passes < MaxSubmits /\ \A c \in Callers : poolStop[c] = "idle")
              => ENABLED SubmitBurst)
    /\ [][passes' # passes =>
             IF Len(jobs) = 2 * MaxConcurrency
             THEN jobs' = jobs
             ELSE \E t \in targets : jobs' = Append(jobs, t)]_vars

\* No worker ever took a target, the queue is full and one Submit more
\* than its capacity has returned.
C15_Witness ==
    /\ clock = 2
    /\ \A w \in Workers : workers[w].pc = "idle"
    /\ Len(jobs) = 2 * MaxConcurrency
    /\ passes = 2 * MaxConcurrency + 1

\* C16: no call of WorkerPool.Stop panics, the jobs channel is closed by
\* one step only, and a call has returned only when the channel is closed
\* and every worker has exited.
C16_StopIdempotent ==
    /\ [](~panicked)
    /\ [](\A c \in Callers :
              poolStop[c] = "returned"
                  => (closed /\ \A w \in Workers : workers[w].pc = "exited"))
    /\ [][(closed' # closed) => (~closed /\ stopOnce = "free")]_vars

\* Two goroutines have both returned from Stop on a pool that had probed,
\* and one of them is calling Stop again.
C16_Witness ==
    \E c1, c2 \in Stoppers :
        /\ poolStop[c1] = "returned"
        /\ poolStop[c2] = "call"
        /\ stopOnce = "done"
        /\ results # <<>>

\* C17: when Checker.Stop has returned, the ticker goroutine has returned,
\* WorkerPool.Stop has completed, every worker has exited with the queue
\* empty, and no worker takes a step afterwards.
C17_StopReturnsQuiesced ==
    /\ [](mainpc = "stopped"
             => (/\ chk.pc = "exited"
                 /\ closed
                 /\ stopOnce = "done"
                 /\ jobs = <<>>
                 /\ \A w \in Workers : workers[w].pc = "exited"))
    /\ [][mainpc = "stopped" => (workers' = workers /\ results' = results)]_vars

\* Checker.Stop has returned after two scheduling passes and a written
\* result.
C17_Witness ==
    /\ mainpc = "stopped"
    /\ passes = 2
    /\ results # <<>>

\* C18: once stopChan is closed no scheduling pass begins and no target is
\* submitted.
C18_NoSchedulingAfterStop ==
    [][stopChan => (passes' = passes /\ chk'.pending = chk.pending)]_vars

\* C19: a probe that is in flight once shutdown has begun ends only
\* through its CreateCheckResult call, and Checker.Stop has returned only
\* when no probe is in flight any more.
C19_InFlightResultWritten ==
    /\ [](mainpc = "stopped" => \A w \in Workers : ~InProbe(w))
    /\ [][\A w \in Workers :
             (/\ stopChan
              /\ InProbe(w)
              /\ workers'[w].pc \in {"idle", "exited"})
                 => (workers[w].pc = "release" /\ workers[w].calls = 1)]_vars

\* Checker.Stop is waiting, the pool's Stop is waiting for its workers,
\* and a probe that went through all its attempts has just made its
\* CreateCheckResult call.
C19_Witness ==
    /\ mainpc = "stopwait"
    /\ poolStop[0] = "wait"
    /\ \E w \in Workers : /\ workers[w].pc = "release"
                          /\ workers[w].attempts = maxAttempts
                          /\ workers[w].calls = 1

\* C20: once the jobs channel is closed by shutdown no worker takes a
\* target from the queue to probe it.
C20_NoProbeStartsAfterStop ==
    [][closed => \A w \in Workers :
                    ~(workers[w].pc = "idle" /\ workers'[w].pc = "acquire")]_vars

----------------------------------------------------------------------------
(* Properties of POST /v1/targets and CreateTarget *)

KeyRecorded(rows, key) == \E row \in rows : row.key = key[1]

\* The step with which slot r returns from CreateTarget without a store
\* failure: the handler's answer is the last entry of responses'.
Answers(r) ==
    /\ reqs[r].pc # "idle"
    /\ reqs'[r].pc = "idle"
    /\ reqs'[r].status # 500
    /\ Len(responses') = Len(responses) + 1

LastResponse(log) == log[Len(log)]

\* C7: of two POSTs with the same Idempotency-Key and the same URL the
\* first, creating the target, is answered 201 and the second 200 with
\* the same target id.
C7_SecondUseOfKeyIs200 ==
    \A i, j \in 1..Len(responses) :
        (/\ i < j
         /\ responses[i].key # <<>>
         /\ responses[i].key = responses[j].key
         /\ responses[i].raw = responses[j].raw
         /\ responses[i].status = 201)
            => (responses[j].status = 200 /\ responses[j].id = responses[i].id)

\* C8: CreateTarget with a recorded key returns the target bound to the
\* key with status Duplicate, whatever the URL, and changes neither the
\* targets nor the idempotency records.
C8_ReplayIsDuplicate ==
    [][\A r \in Slots :
         (/\ reqs[r].pc = "lookup"
          /\ KeyRecorded(idem, reqs[r].key)
          /\ Answers(r))
            => (/\ LastResponse(responses').err = "dup"
                /\ \E row \in idem : /\ row.key = reqs[r].key[1]
                                     /\ row.targetID = LastResponse(responses').id
                /\ targets' = targets
                /\ idem' = idem)]_vars

NoTwoTargetsShareCanonical ==
    \A t1, t2 \in targets : t1.canonical = t2.canonical => t1 = t2

\* C9 as claimed: no two stored targets share a canonical_url, and any two
\* registrations of URLs with one canonical form return the same id.
C9_SameCanonicalSameId ==
    /\ NoTwoTargetsShareCanonical
    /\ \A i, j \in 1..Len(responses) :
          responses[i].canonical = responses[j].canonical
              => responses[i].id = responses[j].id

\* C9 as amended: no two stored targets share a canonical_url, and any two
\* registrations of URLs with one canonical form, neither of them answered
\* through an already recorded idempotency key, return the same id, the id
\* of the one stored target with that canonical_url.
C9_SameCanonicalSameIdUnlessReplayed ==
    /\ NoTwoTargetsShareCanonical
    /\ \A i, j \in 1..Len(responses) :
          (/\ responses[i].canonical = responses[j].canonical
           /\ ~responses[i].replayed
           /\ ~responses[j].replayed)
              => /\ responses[i].id = responses[j].id
                 /\ \E t \in targets : /\ t.id = responses[i].id
                                       /\ t.canonical = responses[i].canonical

\* Two differently written URLs with one canonical form were registered,
\* the first created and the second answered as a duplicate, while both
\* handler goroutines are inside CreateTarget again.
C9_Witness ==
    /\ \E i, j \in 1..Len(responses) :
          /\ i < j
          /\ responses[i].raw # responses[j].raw
          /\ responses[i].canonical = responses[j].canonical
          /\ ~responses[i].replayed /\ ~responses[j].replayed
          /\ responses[i].status = 201
          /\ responses[j].status = 200
    /\ \E r \in Slots : reqs[r].pc # "idle"

\* C10: CreateTarget with an unrecorded key and a canonical_url that is
\* already stored returns the pre-existing target with status Duplicate,
\* inserts no target and records no key: the key stays unrecorded.
C10_ConflictRecordsNoKey ==
    [][\A r \in Slots :
         (/\ reqs[r].pc = "insert"
          /\ reqs[r].key # <<>>
          /\ CanonicalConflict(targets, reqs[r].target)
          /\ Answers(r))
            => (/\ LastResponse(responses').err = "dup"
                /\ \E t \in targets : /\ t.canonical = reqs[r].target.canonical
                                      /\ t.id = LastResponse(responses').id
                /\ LastResponse(responses').id # reqs[r].target.id
                /\ targets' = targets
                /\ idem' = idem
                /\ ~KeyRecorded(idem', reqs[r].key))]_vars

\* A request with a key was answered as a duplicate of a stored
\* canonical_url, and its key is not recorded.
C10_Witness ==
    \E i \in 1..Len(responses) :
        /\ responses[i].key # <<>>
        /\ ~responses[i].replayed
        /\ responses[i].err = "dup"
        /\ ~KeyRecorded(idem, responses[i].key)

\* C11: in every state a key of idempotency_keys is bound to one target
\* id, and no step removes or rebinds a recorded key.
C11_KeyBoundOnce ==
    /\ [](\A r1, r2 \in idem : r1.key = r2.key => r1.targetID = r2.targetID)
    /\ [][\A row \in idem : row \in idem']_vars

\* A recorded key was used again with a URL of another canonical form than
\* the one of the target it is bound to, and that request was answered.
C11_Witness ==
    \E row \in idem, i \in 1..Len(responses) :
        /\ responses[i].key = <<row.key>>
        /\ responses[i].id = row.targetID
        /\ \E t \in targets : /\ t.id = row.targetID
                              /\ t.canonical # responses[i].canonical

\* C12: every idempotency record refers to a stored target; a record
\* appears only in the step that also stores the target of the same call;
\* a call that fails after its target INSERT leaves no target behind.
C12_TargetAndKeyAtomic ==
    /\ [](\A row \in idem : \E t \in targets : t.id = row.targetID)
    /\ [][/\ \A row \in idem' \ idem :
                \E r \in Slots :
                    /\ reqs[r].pc = "commit" /\ reqs'[r].pc = "idle"
                    /\ reqs[r].key = <<row.key>>
                    /\ reqs[r].target.id = row.targetID
                    /\ reqs[r].target \notin targets
                    /\ reqs[r].target \in targets'
          /\ \A r \in Slots :
                (/\ reqs[r].pc \in {"insertkey", "commit"}
                 /\ reqs[r].key # <<>>
                 /\ reqs'[r].pc = "idle"
                 /\ ~KeyRecorded(idem', reqs[r].key))
                    => \A t \in targets' : t.id # reqs[r].target.id]_vars

\* One call committed its target together with its key while another call
\* has inserted its target and is about to insert its key.
C12_Witness ==
    /\ idem # {}
    /\ \E r \in Slots : /\ reqs[r].pc = "insertkey"
                        /\ dbWriter = r
                        /\ reqs[r].target \notin targets

\* C13: a POST without Idempotency-Key that the store served is answered
\* 201 iff no stored target has the request's canonical URL, and else 200
\* with the id and the original url of the stored target.
C13_StatusWithoutKey ==
    [][\A r \in Slots :
         (reqs[r].key = <<>> /\ Answers(r))
            => LET resp == LastResponse(responses') IN
               IF CanonicalConflict(targets, reqs[r].target)
               THEN /\ resp.status = 200
                    /\ \E t \in targets : /\ t.canonical = reqs[r].target.canonical
                                          /\ resp.id = t.id
                                          /\ resp.url = t.url
               ELSE /\ resp.status = 201
                    /\ resp.id = reqs[r].target.id
                    /\ resp.url = reqs[r].raw]_vars

\* A keyless POST created a target and a later keyless POST of the same
\* URL written differently got 200 with the first one's id and url.
C13_Witness ==
    \E i, j \in 1..Len(responses) :
        /\ i < j
        /\ responses[i].key = <<>> /\ responses[j].key = <<>>
        /\ responses[i].status = 201 /\ responses[j].status = 200
        /\ responses[j].raw # responses[i].raw
        /\ responses[j].id = responses[i].id
        /\ responses[j].url = responses[i].raw

\* The ids of a sequence of targets.
Ids(ts) == [i \in 1..Len(ts) |-> ts[i].id]

\* k copies of a sequence, one after the other.
RECURSIVE Rep(_, _)
Rep(q, k) == IF k = 0 THEN <<>> ELSE q \o Rep(q, k - 1)

\* C22: the first pass begins before the goroutine waits in select; a
\* pass begins only at Start or by consuming one tick, and each begins
\* once; the Submit calls made so far, followed by those the running pass
\* still has to make, are the ids GetAllTargets returns, in its order,
\* once per pass that got them; a pass whose GetAllTargets failed goes
\* back to select with nothing to submit.
C22_OnePassPerTick ==
    /\ [](chk.pc = "select" => passes >= 1)
    /\ [](\E k \in 0..passes :
              chk.submitted \o Ids(chk.pending) = Rep(Ids(SortTargets(targets)), k))
    /\ [][/\ (chk'.pc = "pass" /\ chk.pc # "pass")
               => \/ chk.pc = "new" /\ passes = 0
                  \/ chk.pc = "select" /\ tickPending /\ ~tickPending'
          /\ (passes' # passes)
               => (/\ passes' = passes + 1
                   /\ chk.pc = "pass" /\ chk'.pc # "pass"
                   /\ chk'.submitted = chk.submitted
                   /\ chk'.pending \in {<<>>, SortTargets(targets)})
          /\ (chk.pc = "submit" /\ chk' # chk)
               => (/\ chk'.submitted = Append(chk.submitted, Head(chk.pending).id)
                   /\ jobs' = SubmitTo(jobs, Head(chk.pending))
                   /\ chk'.pending = Tail(chk.pending))
          /\ (chk'.pc = "select" /\ chk.pc # "select")
               => chk'.pending = <<>>]_vars

\* The second pass, started by a tick, has submitted every target again
\* and the goroutine is back in select.
C22_Witness ==
    /\ chk.pc = "select"
    /\ passes = 2
    /\ ~tickPending
    /\ chk.submitted = Rep(Ids(SortTargets(targets)), 2)

\* How often e occurs in the sequence q.
Count(q, e) == Cardinality({i \in 1..Len(q) : q[i] = e})

\* C23: for every target the stored results are at most as many as the
\* Submit calls made for it, one per pass that submitted it.
C23_AtMostOneResultPerSubmit ==
    \A t \in targets :
        Cardinality({i \in 1..Len(results) : results[i].targetID = t.id})
            <= Count(chk.submitted, t.id)

\* A target submitted by two passes has two results, another has none.
C23_Witness ==
    /\ \E t \in targets :
          /\ Count(chk.submitted, t.id) = 2
          /\ Cardinality({i \in 1..Len(results) : results[i].targetID = t.id}) = 2
    /\ \E t \in targets :
          /\ Count(chk.submitted, t.id) = 2
          /\ Cardinality({i \in 1..Len(results) : results[i].targetID = t.id}) = 0

----------------------------------------------------------------------------
(* Properties of the list endpoints *)

\* C24: the ids a client has received while following next_page_token
\* from page to page are all different.
C24_NoRowTwice ==
    lst.pc = "targets"
        => \A i, j \in 1..Len(lst.seen) : lst.seen[i] = lst.seen[j] => i = j

\* A target registered during the listing arrived on a later page than
\* the first, after pages of targets stored before.
C24_Witness ==
    /\ lst.pc = "targets"
    /\ Len(lst.seen) > Len(lst.page)
    /\ lst.seen[1] \in {t.id : t \in ListedTargets}
    /\ \E i \in 1..Len(lst.page) : lst.page[i] \notin ListedTargets

\* C25: a 200 response of GET /v1/targets carries a token iff its page has
\* exactly limit items, and the token decodes to the created_at and the id
\* of the last item.
C25_TokenIffFullPage ==
    (lst.pc = "targets" /\ lst.status = 200)
        => /\ (lst.token # <<>>) <=> (Len(lst.page) = lst.limit)
           /\ lst.token # <<>>
                 => /\ ParseTime(lst.token[1]) = lst.page[Len(lst.page)].createdAt
                    /\ lst.token[2] = lst.page[Len(lst.page)].id

\* After full pages that carried a token the client got an empty page
\* without one.
C25_Witness ==
    /\ lst.pc = "targets"
    /\ lst.status = 200
    /\ lst.seen # <<>>
    /\ lst.page = <<>>
    /\ lst.token = <<>>

\* (created_at, id) of a before that of b, created_at as a point in time.
ChronoLess(a, b) ==
    \/ a.createdAt < b.createdAt
    \/ a.createdAt = b.createdAt /\ a.id < b.id

\* C26: a page of ListTargets is in ascending (created_at, id) order of
\* points in time, every row of it is above the cursor, and a stored row
\* above the cursor that is not on the page comes after a full page.
C26_ChronologicalPages ==
    [][(lst' # lst /\ lst'.pc = "targets")
          => LET page == lst'.page
                 cur == [createdAt |-> lst'.after.time, id |-> lst'.after.id]
                 given == lst'.after.time # ZeroTime /\ lst'.after.id # NoID
                 host == ToLower(lst'.hostParam)
             IN /\ \A i, j \in 1..Len(page) : i < j => ChronoLess(page[i], page[j])
                /\ given => \A i \in 1..Len(page) : ChronoLess(cur, page[i])
                /\ \A t \in targets :
                      (/\ host # <<>> => t.host = host
                       /\ given => ChronoLess(cur, t)
                       /\ \A i \in 1..Len(page) : page[i] # t)
                          => (/\ Len(page) = lst'.limit
                              /\ ChronoLess(page[Len(page)], t))]_vars

\* limit clamped into lo..hi, the default when absent.
Clamp(l, lo, hi, default) ==
    IF l = <<>> THEN default
    ELSE IF l[1] < lo THEN lo
    ELSE IF l[1] > hi THEN hi
    ELSE l[1]

\* C27: the limit a list handler uses is the limit parameter clamped into
\* 1..500 (default 50) for targets and into 1..1000 (default 100) for
\* results.
C27_LimitClamped ==
    /\ lst.pc = "targets" /\ lst.status = 200
          => lst.limit = Clamp(lst.rawLimit, 1, 500, 50)
    /\ lst.pc = "results"
          => lst.limit = Clamp(lst.rawLimit, 1, 1000, 100)

\* C29: a results request the store served is answered 404 with no items
\* when no target has the id, and else 200 with results of that target
\* only.
C29_NotFoundOrResults ==
    lst.pc = "results"
        => IF lst.id \in {t.id : t \in targets}
           THEN /\ lst.status = 200
                /\ \A i \in 1..Len(lst.items) : lst.items[i].targetID = lst.id
           ELSE /\ lst.status = 404
                /\ lst.items = <<>>

\* The results of a stored target that has none were asked for and the
\* answer is 200 with no items.
C29_Witness ==
    /\ lst.pc = "results"
    /\ lst.id \in {t.id : t \in targets}
    /\ \A i \in 1..Len(results) : results[i].targetID # lst.id
    /\ lst.status = 200
    /\ lst.items = <<>>

\* C30: the listed results are results of the given target, at most limit
\* of them, in descending order of checked_at as points in time, and with
\* since given each has checked_at later than since.
C30_ResultsNewestFirst ==
    (lst.pc = "results" /\ lst.status = 200)
        => /\ \A i \in 1..Len(lst.items) : lst.items[i].targetID = lst.id
           /\ Len(lst.items) <= lst.limit
           /\ \A i, j \in 1..Len(lst.items) :
                 i < j => lst.items[i].checkedAt > lst.items[j].checkedAt
           /\ lst.since # <<>>
                 => \A i \in 1..Len(lst.items) :
                        lst.items[i].checkedAt > lst.since[1]

----------------------------------------------------------------------------
(* Properties of the shutdown deadline *)

\* C21: from the moment the deadline of SHUTDOWN_GRACE has passed, run()
\* is not held in checkerSvc.Stop() by probes in flight or queued.
C21_WaitCappedByGrace ==
    (graceExpired /\ mainpc = "stopwait")
        => (jobs = <<>> /\ \A w \in Workers : ~InProbe(w))

\* C28: Canonicalize is idempotent: wherever Canonicalize(u) succeeds,
\* Canonicalize of its result succeeds and returns that result unchanged,
\* also for a path ending in more than one "/".
C28_CanonicalizeIdempotent ==
    canon.pc = "twice" =>
        /\ canon.second.ok
        /\ canon.second.str = canon.first.str

\* C31: the host is released before the CheckResult is persisted: when a
\* worker is about to call CreateCheckResult for a probe, the probe's host
\* is not in the limiter set.
C31_ReleasedBeforePersist ==
    \A w \in Workers :
        workers[w].pc = "persist" => workers[w].target.host \notin hosts

RECURSIVE SumSeq(_)
SumSeq(q) == IF q = <<>> THEN 0 ELSE Head(q) + SumSeq(Tail(q))

\* C32: a probe sleeps 200 ms before attempt 2 and 400 ms before attempt 3,
\* one sleep between two attempts and none after the last one, so the
\* sleeps of a probe add up to 0, 200 or 600 ms.
C32_BackoffSchedule ==
    \A w \in Workers :
        LET wk == workers[w] IN
        /\ wk.sleeps \in {<<>>, <<200>>, <<200, 400>>}
        /\ SumSeq(wk.sleeps) \in {0, 200, 600}
        /\ wk.pc = "sleep" => wk.attempts < maxAttempts
        /\ wk.pc \in {"inflight", "sleep", "persist", "release"}
              => Len(wk.sleeps) = wk.attempts - 1
        /\ wk.pc = "attempt" => Len(wk.sleeps) = wk.attempts

\* A probe that used its three attempts writes its row after sleeping
\* 200 ms and then 400 ms.
C32_Witness ==
    \E w \in Workers :
        /\ workers[w].pc = "persist"
        /\ workers[w].attempts = maxAttempts
        /\ workers[w].sleeps = <<200, 400>>

\* C33: a probe whose Acquire returns false returns at once: no HTTP
\* attempt, no CheckResult, no Release; the limiter set, with the lock of
\* the probe that holds the host, and the store are as before.
C33_DroppedProbeChangesNothing ==
    [][\A w \in Workers :
         (/\ workers[w].pc = "acquire"
          /\ workers[w].target.host \in hosts
          /\ workers'[w] # workers[w])
            => (/\ workers'[w] = IdleWorker
                /\ hosts' = hosts
                /\ results' = results
                /\ clock' = clock
                /\ targets' = targets
                /\ idem' = idem
                /\ \A v \in Workers : v # w => workers'[v] = workers[v])]_vars

\* Two targets were submitted and both dequeued; one is in its first round
\* trip, the only attempt made so far, and the worker that took the other
\* is back at the queue: the other was dropped, and the host is still held.
C33_Witness ==
    \E w1, w2 \in Workers :
        /\ w1 # w2
        /\ Len(chk.submitted) = 2
        /\ jobs = <<>>
        /\ workers[w1].pc = "inflight"
        /\ workers[w1].attempts = 1
        /\ clock = 3
        /\ workers[w2] = IdleWorker
        /\ results = <<>>
        /\ hosts = {workers[w1].target.host}

\* C34: when CreateCheckResult returns an error the probe completes all the
\* same: the write is made once and not repeated, no further attempt is
\* made, the host is released, nothing panics, and the worker is back at
\* the queue, where it takes the next target if there is one.
C34_WriteErrorCompletesProbe ==
    /\ [](\A w \in Workers :
            /\ (workers[w].pc = "release" /\ workers[w].dbErr)
                  => (workers[w].calls = 1 /\ workers[w].target.host \in hosts)
            /\ workers[w].dbErr => workers[w].pc = "release"
            /\ (workers[w].pc = "idle" /\ jobs # <<>>) => ENABLED WorkerReceive(w))
    /\ [][\A w \in Workers :
            /\ (workers[w].pc = "persist" /\ results' = results
                    /\ workers'[w] # workers[w])
                  => (/\ workers'[w].pc = "release"
                      /\ workers'[w].dbErr
                      /\ clock' = clock)
            /\ (workers[w].pc = "release" /\ workers[w].dbErr
                    /\ workers'[w] # workers[w])
                  => (/\ workers'[w] = IdleWorker
                      /\ hosts' = hosts \ {workers[w].target.host}
                      /\ results' = results
                      /\ clock' = clock
                      /\ ~panicked')]_vars

\* Two attempts were made, no row was written, and the only probe in flight
\* is in its first attempt: the probe that made the other attempt ended
\* with a failed write, its host was released and a worker took the next
\* target.
C34_Witness ==
    \E w \in Workers :
        /\ workers[w].pc = "inflight"
        /\ workers[w].attempts = 1
        /\ clock = 4
        /\ results = <<>>
        /\ hosts = {workers[w].target.host}
        /\ \A v \in Workers : v # w => workers[v] = IdleWorker

\* C35: the HostLimiter is a set of host strings: Acquire(h) returns true
\* and inserts h exactly when h is absent and changes nothing when h is
\* present, Release(h) removes h, after which Acquire(h) would return
\* true, and a call for h leaves the membership of every other string,
\* also one that differs from h in case only, as it was.
C35_LimiterIsASet ==
    /\ [](lim.op = "release" => (lim.host \notin hosts /\ AcquireOK(hosts, lim.host)))
    /\ [](lim.op = "acquire" => lim.host \in hosts)
    /\ [][(lim' # lim \/ hosts' # hosts) =>
            /\ \A g \in LimiterHosts :
                  g # lim'.host => ((g \in hosts') <=> (g \in hosts))
            /\ lim'.op = "acquire" =>
                  /\ lim'.ok <=> (lim'.host \notin hosts)
                  /\ lim'.host \in hosts'
            /\ hosts' \subseteq hosts \cup {lim'.host}
            /\ hosts \subseteq hosts' \cup {lim'.host}]_vars

\* Acquire("a") has just returned true while "A" is held.
C35_Witness ==
    /\ lim = [op |-> "acquire", host |-> <<"a">>, ok |-> TRUE]
    /\ <<"A">> \in hosts
    /\ <<"a">> \in hosts

\* The hosts of the probes between a successful Acquire and their Release.
HeldHosts == {workers[w].target.host : w \in {v \in Workers : InProbe(v)}}

\* C36: every successful Acquire(h) is followed by one Release(h) on every
\* path of performCheck and a probe whose Acquire failed never calls
\* Release: the limiter set is the set of hosts of the probes in flight,
\* empty when there is none; a host leaves the set only in the return of
\* the probe that acquired it, and every probe returns through its Release.
C36_AcquireReleasePaired ==
    /\ [](hosts = HeldHosts)
    /\ [][\A w \in Workers :
            /\ (InProbe(w) /\ workers'[w].pc = "idle")
                  => (/\ workers[w].pc = "release"
                      /\ workers[w].target.host \in hosts
                      /\ hosts' = hosts \ {workers[w].target.host})
            /\ (workers[w].pc = "acquire" /\ workers'[w].pc = "idle")
                  => hosts' = hosts
            /\ (workers[w].pc = "acquire" /\ workers'[w].pc = "attempt")
                  => (/\ workers[w].target.host \notin hosts
                      /\ hosts' = hosts \cup {workers[w].target.host})
            /\ (workers'[w] = workers[w] /\ InProbe(w))
                  => workers[w].target.host \in hosts']_vars

\* No probe is in flight and the limiter set is empty after a probe that
\* ended on a request-construction error and one that ended on a response,
\* with more attempts made than rows written (retries or a failed write).
C36_Witness ==
    /\ hosts = {}
    /\ \A w \in Workers : workers[w] = IdleWorker
    /\ \E i \in 1..Len(results) : results[i].final.kind = "reqerr"
    /\ \E i \in 1..Len(results) : results[i].final.kind = "resp"
    /\ clock > 2 + Len(results)

\* The stored targets a listing with host parameter h has to return.
Matching(h) == {t \in targets : h # <<>> => t.host = ToLower(h)}

\* The ids of `seen` are those of the matching targets, each once.
EachOnce(seen, h) ==
    /\ {seen[i] : i \in 1..Len(seen)} = {t.id : t \in Matching(h)}
    /\ Len(seen) = Cardinality(Matching(h))

\* C37: a listing followed from its first request to a response without
\* token, with no target inserted meanwhile, has returned every stored
\* target that matches the host filter exactly once, in ascending
\* (created_at, id) order.
C37_FullListing ==
    (lst.pc = "targets" /\ lst.token = <<>> /\ lst.first = targets)
        => /\ EachOnce(lst.seen, lst.hostParam)
           /\ \A i, j \in 1..Len(lst.seen) :
                 i < j => \A a, b \in targets :
                             (a.id = lst.seen[i] /\ b.id = lst.seen[j])
                                 => ChronoLess(a, b)

\* C38: under fair scheduling every target accepted into the queue is
\* taken by a worker, every probe a worker began ends and the worker is
\* back at the queue or has exited, a call of WorkerPool.Stop returns and
\* a call of Checker.Stop returns.
C38_ProbesEndAndStopReturns ==
    /\ (jobs # <<>>) ~> (jobs = <<>>)
    /\ \A w \in Workers :
          (workers[w].pc \notin {"idle", "exited"})
              ~> (workers[w].pc \in {"idle", "exited"})
    /\ (poolStop[0] \in {"call", "wait"}) ~> (poolStop[0] = "returned")
    /\ (mainpc = "stopwait") ~> (mainpc = "stopped")

\* Checker.Stop has returned after a pass that submitted two targets:
\* three attempts or more were made, a row was written and every worker
\* has exited.
C38_Witness ==
    /\ mainpc = "stopped"
    /\ Len(chk.submitted) = 2
    /\ \A w \in Workers : workers[w].pc = "exited"
    /\ results # <<>>
    /\ clock >= maxAttempts

\* C39: the Checker never calls Submit on the closed jobs channel: once
\* the channel is closed the ticker goroutine is in or past its call of
\* pool.Stop, it starts no pass and fetches no targets, and nothing has
\* panicked.
C39_NoSubmitAfterClose ==
    /\ [](closed => (chk.pc \in {"poolstop", "exited"} /\ chk.pending = <<>>))
    /\ [](~panicked)
    /\ [][closed => (chk'.submitted = chk.submitted /\ passes' = passes)]_vars

\* The jobs channel is closed after a pass that called Submit, while a
\* tick that fired before the stop waits in ticker.C and targets are still
\* queued.
C39_Witness ==
    /\ closed
    /\ tickPending
    /\ chk.submitted # <<>>
    /\ jobs # <<>>
    /\ chk.pc = "poolstop"

\* C40: Checker.Stop is not idempotent: a call made after Checker.Stop has
\* returned does not return; it panics on close(c.stopChan), and nothing
\* else panics.
C40_SecondCheckerStopPanics ==
    /\ [](panicked <=> mainpc = "panic")
    /\ [][(mainpc = "stopped" /\ mainpc' # mainpc)
             => (mainpc' = "panic" /\ panicked' /\ stopChan)]_vars

\* The second call has panicked, after the first had stopped the pool and
\* the ticker goroutine and left written results behind.
C40_Witness ==
    /\ panicked
    /\ mainpc = "panic"
    /\ chk.pc = "exited"
    /\ stopOnce = "done"
    /\ results # <<>>

====
